---- MODULE Spec2Model ----
(***************************************************************************)
(* Entry API of hashbrown's HashSet (src/rustc_set_entry.rs).              *)
(*                                                                         *)
(* A value of type T is a pair of an equivalence class c (all that Eq and  *)
(* Hash look at) and a representation r (what distinguishes two equal      *)
(* values, e.g. the allocation behind an Rc).  The set wraps a map from T  *)
(* to (); the map's entry layer (crate::rustc_entry) is the table locator   *)
(* of the specification: locate, store, evict, overwrite, key_of.          *)
(***************************************************************************)
EXTENDS Integers, FiniteSets, Sequences, TLC

NumClasses == 2
NumReps == 2

Classes == 1..NumClasses
Reps == 1..NumReps
Values == [c : Classes, r : Reps]
NoValue == [c |-> 0, r |-> 0]
Slots == 1..NumClasses

\* T: Eq -- the set's equivalence relation
Equivalent(a, b) == a.c = b.c

VARIABLES
    table,   \* self.map: slot -> stored value, or NoValue for an empty slot
    entry,   \* the live entry handle borrowing the set, tag "None" when there is none
    life,    \* history of the current entry lifetime: queried value, table before the lookup,
             \* how the occupied handle arose, how many calls changed the table, how many
             \* probe sequences were run
    last,    \* history of the last call: name, the handle's tag when called, returned value
    prev,    \* history of the previous lifetime: the value it or_insert()ed, else NoValue
    singles, dupes,            \* the two sets of the documented example
    text, pos,                 \* the characters the example's loop runs over, and the next one
    pc,                        \* where the example's loop stands
    dupe_entry, single_entry   \* the entries the loop body holds

set_vars == <<table, entry, life, last, prev>>
example_vars == <<singles, dupes, text, pos, pc, dupe_entry, single_entry>>
vars == <<set_vars, example_vars>>

NoEntry == [tag |-> "None", inner |-> [key |-> NoValue, slot |-> 0]]

----------------------------------------------------------------------------
(* The set as its callers see it *)

len(t) == Cardinality({s \in Slots : t[s] # NoValue})

contains(t, v) == \E s \in Slots : t[s] # NoValue /\ Equivalent(t[s], v)

\* the stored value equivalent to v (HashSet::get), NoValue when absent
stored(t, v) ==
    IF contains(t, v)
    THEN t[CHOOSE s \in Slots : t[s] # NoValue /\ Equivalent(t[s], v)]
    ELSE NoValue

members(t) == {t[s] : s \in Slots} \ {NoValue}

----------------------------------------------------------------------------
(* The table locator: the map's entry layer, which the set's entry wraps *)

\* one probe sequence: the slot of an equivalent value, else a reserved empty slot
locate(t, value) ==
    IF \E s \in Slots : t[s] # NoValue /\ Equivalent(t[s], value)
    THEN [kind |-> "Found",
          slot |-> CHOOSE s \in Slots :
                      /\ t[s] # NoValue /\ Equivalent(t[s], value)
                      /\ \A s2 \in Slots : (t[s2] # NoValue /\ Equivalent(t[s2], value)) => s <= s2]
    ELSE [kind |-> "Reserved",
          slot |-> CHOOSE s \in Slots :
                      /\ t[s] = NoValue
                      /\ \A s2 \in Slots : t[s2] = NoValue => s <= s2]

\* commit a value into a reserved slot
store(t, slot, value) == [t EXCEPT ![slot] = value]

\* remove the value at a located slot and hand it to the caller
evict(t, slot) == [table |-> [t EXCEPT ![slot] = NoValue], value |-> t[slot]]

\* replace the value at a located slot in place, handing back the old one
overwrite(t, slot, value) == [table |-> [t EXCEPT ![slot] = value], old |-> t[slot]]

\* read the value at a located slot
key_of(t, slot) == t[slot]

\* The map's entry methods, as the set's entry calls them.  Each result carries
\* probes, the number of probe sequences (locate calls) the call ran.

\* self.map.rustc_entry(value): the locator's outcome with the queried value retained
map_rustc_entry(t, value) ==
    LET r == locate(t, value) IN
    [table |-> t,
     tag |-> IF r.kind = "Found" THEN "Occupied" ELSE "Vacant",
     inner |-> [key |-> value, slot |-> r.slot],
     probes |-> 1]

\* inner.key() of an occupied entry: the value in the located slot
map_occupied_key(t, inner) == [ret |-> key_of(t, inner.slot), probes |-> 0]

\* inner.remove_entry(): the evicted (key, ()) pair
map_remove_entry(t, inner) ==
    LET r == evict(t, inner.slot) IN
    [table |-> r.table, ret |-> <<r.value, "unit">>, probes |-> 0]

\* inner.replace_key(): the queried value goes into the slot, the old one comes back
map_replace_key(t, inner) ==
    LET r == overwrite(t, inner.slot, inner.key) IN
    [table |-> r.table, ret |-> r.old, probes |-> 0]

\* inner.key() of a vacant entry: the queried value
map_vacant_key(inner) == [ret |-> inner.key, probes |-> 0]

\* inner.into_key(): the reservation is given up
map_into_key(t, inner) == [table |-> t, ret |-> inner.key, probes |-> 0]

\* inner.insert(()): store into the reserved slot
map_insert(t, inner) == [table |-> store(t, inner.slot, inner.key), probes |-> 0]

\* inner.insert_entry(()): store, then an occupied handle over the same slot
map_insert_entry(t, inner) ==
    [table |-> store(t, inner.slot, inner.key), inner |-> inner, probes |-> 0]

----------------------------------------------------------------------------
(* src/rustc_set_entry.rs *)

\* a plausible slip: the entry is taken by inserting the value straight away
HashSet_rustc_entry_eager(t, value) ==
    LET e == map_rustc_entry(t, value) IN
    [table |-> store(t, e.inner.slot, value), tag |-> "Occupied", inner |-> e.inner,
     probes |-> e.probes]

\* a plausible slip: the two arms of the match are swapped
HashSet_rustc_entry_swapped(t, value) ==
    LET e == map_rustc_entry(t, value) IN
    IF e.tag = "Occupied"
    THEN [table |-> e.table, tag |-> "Vacant", inner |-> e.inner, probes |-> e.probes]
    ELSE [table |-> e.table, tag |-> "Occupied", inner |-> e.inner, probes |-> e.probes]

HashSet_rustc_entry(t, value) ==
    LET e == map_rustc_entry(t, value) IN
    IF e.tag = "Occupied"
    THEN [table |-> e.table, tag |-> "Occupied", inner |-> e.inner, probes |-> e.probes]
    ELSE [table |-> e.table, tag |-> "Vacant", inner |-> e.inner, probes |-> e.probes]

\* a plausible slip: hands out the caller's own value instead of the stored one
RustcOccupiedEntry_get_queried(t, o) == [ret |-> o.inner.key, probes |-> 0]

\* self.inner.key() on an occupied entry
RustcOccupiedEntry_get(t, o) == map_occupied_key(t, o.inner)

\* a plausible slip: hands back the caller's own value
RustcOccupiedEntry_remove_queried(t, o) ==
    LET r == map_remove_entry(t, o.inner) IN
    [table |-> r.table, ret |-> o.inner.key, probes |-> r.probes]

\* a plausible slip: reads the value out without erasing the slot
RustcOccupiedEntry_remove_kept(t, o) ==
    LET r == map_occupied_key(t, o.inner) IN
    [table |-> t, ret |-> r.ret, probes |-> r.probes]

\* a plausible slip: takes out the first value of the table, not the located one
RustcOccupiedEntry_remove_first(t, o) ==
    LET s1 == CHOOSE s \in Slots : t[s] # NoValue /\ \A s2 \in Slots : t[s2] # NoValue => s <= s2
        r == evict(t, s1) IN
    [table |-> r.table, ret |-> r.value, probes |-> 0]

\* self.inner.remove_entry().0
RustcOccupiedEntry_remove(t, o) ==
    LET r == map_remove_entry(t, o.inner) IN
    [table |-> r.table, ret |-> r.ret[1], probes |-> r.probes]

\* a plausible slip: returns the stored value without swapping the new one in
RustcOccupiedEntry_replace_kept(t, o) ==
    LET r == map_occupied_key(t, o.inner) IN
    [table |-> t, ret |-> r.ret, probes |-> r.probes]

\* self.inner.replace_key()
RustcOccupiedEntry_replace(t, o) == map_replace_key(t, o.inner)

\* self.inner.key() on a vacant entry
RustcVacantEntry_get(v) == map_vacant_key(v.inner)

\* self.inner.into_key()
RustcVacantEntry_into_value(t, v) == map_into_key(t, v.inner)

\* a plausible slip: the value is dropped instead of stored
RustcVacantEntry_insert_dropped(t, v) == map_into_key(t, v.inner)

\* a plausible slip: the value goes in through a fresh lookup, not the reservation
RustcVacantEntry_insert_relooked(t, v) ==
    LET e == map_rustc_entry(t, v.inner.key)
        r == map_insert(e.table, e.inner) IN
    [table |-> r.table, probes |-> e.probes + r.probes]

\* self.inner.insert(())
RustcVacantEntry_insert(t, v) ==
    LET r == map_insert(t, v.inner) IN [table |-> r.table, probes |-> r.probes]

\* a plausible slip: the occupied handle is built without storing the value
RustcVacantEntry_insert_entry_unstored(t, v) ==
    [table |-> t, tag |-> "Occupied", inner |-> v.inner, probes |-> 0]

\* a plausible slip: the value is stored but the caller keeps a vacant handle
RustcVacantEntry_insert_entry_reusable(t, v) ==
    LET r == map_insert_entry(t, v.inner) IN
    [table |-> r.table, tag |-> "Vacant", inner |-> r.inner, probes |-> r.probes]

\* RustcOccupiedEntry { inner: self.inner.insert_entry(()) }
RustcVacantEntry_insert_entry(t, v) ==
    LET r == map_insert_entry(t, v.inner) IN
    [table |-> r.table, tag |-> "Occupied", inner |-> r.inner, probes |-> r.probes]

\* a plausible slip: the occupied arm writes the caller's value over the stored one
RustcEntry_insert_overwriting(t, e) ==
    IF e.tag = "Occupied"
    THEN [table |-> store(t, e.inner.slot, e.inner.key), tag |-> e.tag, inner |-> e.inner,
          probes |-> 0]
    ELSE RustcVacantEntry_insert_entry(t, e)

\* a plausible slip: the occupied arm puts the caller's value into a free slot as well
RustcEntry_insert_again(t, e) ==
    IF e.tag = "Occupied"
    THEN [table |-> IF \E s \in Slots : t[s] = NoValue
                    THEN store(t, locate(t, NoValue).slot, e.inner.key)
                    ELSE t,
          tag |-> e.tag, inner |-> e.inner, probes |-> 0]
    ELSE RustcVacantEntry_insert_entry(t, e)

RustcEntry_insert(t, e) ==
    IF e.tag = "Occupied"
    THEN [table |-> t, tag |-> e.tag, inner |-> e.inner, probes |-> 0]
    ELSE RustcVacantEntry_insert_entry(t, e)

\* a plausible slip: the occupied arm takes the stored value out of the set
RustcEntry_or_insert_toggling(t, e) ==
    IF e.tag = "Vacant"
    THEN RustcVacantEntry_insert(t, e)
    ELSE [table |-> RustcOccupiedEntry_remove(t, e).table, probes |-> 0]

\* a plausible slip: the occupied arm writes the caller's value over the stored one
RustcEntry_or_insert_overwriting(t, e) == map_insert(t, e.inner)

RustcEntry_or_insert(t, e) ==
    IF e.tag = "Vacant" THEN RustcVacantEntry_insert(t, e) ELSE [table |-> t, probes |-> 0]

RustcEntry_get(t, e) ==
    IF e.tag = "Occupied" THEN RustcOccupiedEntry_get(t, e) ELSE RustcVacantEntry_get(e)

\* the handle a call leaves with the caller
Handle(r) == [tag |-> r.tag, inner |-> r.inner]

----------------
(* The state machine: the set is only reachable through the live handle *)

TypeOK ==
    /\ table \in [Slots -> Values \cup {NoValue}]
    /\ entry.tag \in {"None", "Occupied", "Vacant"}
    /\ life.q \in Values \cup {NoValue}
    /\ last.ret \in Values \cup {NoValue}
    /\ prev \in Values \cup {NoValue}

Init ==
    /\ table = [s \in Slots |-> NoValue]
    /\ entry = NoEntry
    /\ life = [q |-> NoValue, pre |-> [s \in Slots |-> NoValue], origin |-> "None",
               muts |-> 0, probes |-> 0]
    /\ last = [op |-> "new", was |-> "None", ret |-> NoValue]
    /\ prev = NoValue
    /\ singles = [s \in Slots |-> NoValue]
    /\ dupes = [s \in Slots |-> NoValue]
    /\ text = << >>
    /\ pos = 1
    /\ pc = "idle"
    /\ dupe_entry = NoEntry
    /\ single_entry = NoEntry

\* the lifetime's history after a call that took the table from t1 to t2 with p probes
Counted(l, t1, t2, p) ==
    [l EXCEPT !.muts = @ + (IF t1 # t2 THEN 1 ELSE 0), !.probes = @ + p]

\* set.rustc_entry(value): needs the set mutably, so no other handle is alive
Entry(value) ==
    /\ entry.tag = "None"
    /\ LET r == HashSet_rustc_entry(table, value) IN
        /\ table' = r.table
        /\ entry' = Handle(r)
        /\ life' = Counted([q |-> value, pre |-> table,
                            origin |-> IF r.tag = "Occupied" THEN "Found" ELSE "Reserved",
                            muts |-> 0, probes |-> 0],
                           table, r.table, r.probes)
    /\ last' = [op |-> "rustc_entry", was |-> "None", ret |-> NoValue]
    /\ prev' = IF last.op = "or_insert" /\ life.origin # "Stored" THEN life.q ELSE NoValue
    /\ UNCHANGED example_vars

\* entry.insert() on the enum: the occupied handle stays with the caller
Insert ==
    /\ entry.tag # "None"
    /\ LET r == RustcEntry_insert(table, entry) IN
        /\ table' = r.table
        /\ entry' = Handle(r)
        /\ life' = Counted([life EXCEPT !.origin = IF entry.tag = "Vacant" THEN "Stored" ELSE @],
                           table, r.table, r.probes)
    /\ last' = [op |-> "insert", was |-> entry.tag, ret |-> NoValue]
    /\ UNCHANGED prev
    /\ UNCHANGED example_vars

\* entry.or_insert() on the enum: consumes the handle
OrInsert ==
    /\ entry.tag # "None"
    /\ LET r == RustcEntry_or_insert(table, entry) IN
        /\ table' = r.table
        /\ life' = Counted(life, table, r.table, r.probes)
    /\ entry' = NoEntry
    /\ last' = [op |-> "or_insert", was |-> entry.tag, ret |-> NoValue]
    /\ UNCHANGED prev
    /\ UNCHANGED example_vars

\* entry.get() on the enum: borrows the handle
Get ==
    /\ entry.tag # "None"
    /\ LET r == RustcEntry_get(table, entry) IN
        /\ last' = [op |-> "get", was |-> entry.tag, ret |-> r.ret]
        /\ life' = Counted(life, table, table, r.probes)
    /\ UNCHANGED <<table, entry, prev>>
    /\ UNCHANGED example_vars

\* occupied.get(): borrows the handle
OccupiedGet ==
    /\ entry.tag = "Occupied"
    /\ LET r == RustcOccupiedEntry_get(table, entry) IN
        /\ last' = [op |-> "occupied_get", was |-> entry.tag, ret |-> r.ret]
        /\ life' = Counted(life, table, table, r.probes)
    /\ UNCHANGED <<table, entry, prev>>
    /\ UNCHANGED example_vars

\* occupied.remove(): consumes the handle
Remove ==
    /\ entry.tag = "Occupied"
    /\ LET r == RustcOccupiedEntry_remove(table, entry) IN
        /\ table' = r.table
        /\ last' = [op |-> "remove", was |-> entry.tag, ret |-> r.ret]
        /\ life' = Counted(life, table, r.table, r.probes)
    /\ entry' = NoEntry
    /\ UNCHANGED prev
    /\ UNCHANGED example_vars

\* occupied.replace(): consumes the handle
Replace ==
    /\ entry.tag = "Occupied"
    /\ LET r == RustcOccupiedEntry_replace(table, entry) IN
        /\ table' = r.table
        /\ last' = [op |-> "replace", was |-> entry.tag, ret |-> r.ret]
        /\ life' = Counted(life, table, r.table, r.probes)
    /\ entry' = NoEntry
    /\ UNCHANGED prev
    /\ UNCHANGED example_vars

\* vacant.get(): borrows the handle
VacantGet ==
    /\ entry.tag = "Vacant"
    /\ LET r == RustcVacantEntry_get(entry) IN
        /\ last' = [op |-> "vacant_get", was |-> entry.tag, ret |-> r.ret]
        /\ life' = Counted(life, table, table, r.probes)
    /\ UNCHANGED <<table, entry, prev>>
    /\ UNCHANGED example_vars

\* vacant.into_value(): consumes the handle
IntoValue ==
    /\ entry.tag = "Vacant"
    /\ LET r == RustcVacantEntry_into_value(table, entry) IN
        /\ table' = r.table
        /\ last' = [op |-> "into_value", was |-> entry.tag, ret |-> r.ret]
        /\ life' = Counted(life, table, r.table, r.probes)
    /\ entry' = NoEntry
    /\ UNCHANGED prev
    /\ UNCHANGED example_vars

\* vacant.insert(): consumes the handle
VacantInsert ==
    /\ entry.tag = "Vacant"
    /\ LET r == RustcVacantEntry_insert(table, entry) IN
        /\ table' = r.table
        /\ life' = Counted(life, table, r.table, r.probes)
    /\ entry' = NoEntry
    /\ last' = [op |-> "vacant_insert", was |-> entry.tag, ret |-> NoValue]
    /\ UNCHANGED prev
    /\ UNCHANGED example_vars

\* vacant.insert_entry(): the vacant handle becomes an occupied one
InsertEntry ==
    /\ entry.tag = "Vacant"
    /\ LET r == RustcVacantEntry_insert_entry(table, entry) IN
        /\ table' = r.table
        /\ entry' = Handle(r)
        /\ life' = Counted([life EXCEPT !.origin = "Stored"], table, r.table, r.probes)
    /\ last' = [op |-> "insert_entry", was |-> entry.tag, ret |-> NoValue]
    /\ UNCHANGED prev
    /\ UNCHANGED example_vars

\* the handle goes out of scope unused
Discard ==
    /\ entry.tag # "None"
    /\ entry' = NoEntry
    /\ last' = [op |-> "discard", was |-> entry.tag, ret |-> NoValue]
    /\ UNCHANGED <<table, life, prev>>
    /\ UNCHANGED example_vars

Next ==
    \/ \E value \in Values : Entry(value)
    \/ Insert
    \/ OrInsert
    \/ Get
    \/ OccupiedGet
    \/ Remove
    \/ Replace
    \/ VacantGet
    \/ IntoValue
    \/ VacantInsert
    \/ InsertEntry
    \/ Discard

Spec == Init /\ [][Next]_vars

----------------------------------------------------------------------------
(* The documented example of rustc_entry: singles and dupes of a text *)

MaxText == 4

\* a char: equality is identity, so each class has the one representation
Chars == {v \in Values : v.r = 1}

Texts == UNION {[1..n -> Chars] : n \in 0..MaxText}

\* how often ch occurs among the first n characters of the text
seen(ch, n) == Cardinality({i \in 1..n : text[i] = ch})

ExampleInit ==
    /\ table = [s \in Slots |-> NoValue]
    /\ entry = NoEntry
    /\ life = [q |-> NoValue, pre |-> [s \in Slots |-> NoValue], origin |-> "None",
               muts |-> 0, probes |-> 0]
    /\ last = [op |-> "new", was |-> "None", ret |-> NoValue]
    /\ prev = NoValue
    /\ singles = [s \in Slots |-> NoValue]
    /\ dupes = [s \in Slots |-> NoValue]
    /\ text \in Texts
    /\ pos = 1
    /\ pc = "for"
    /\ dupe_entry = NoEntry
    /\ single_entry = NoEntry

\* for ch in text: if let Vacant(dupe_entry) = dupes.rustc_entry(ch)
ForDupes ==
    /\ pc = "for"
    /\ pos <= Len(text)
    /\ LET r == HashSet_rustc_entry(dupes, text[pos]) IN
        /\ dupes' = r.table
        /\ IF r.tag = "Vacant"
           THEN /\ dupe_entry' = Handle(r)
                /\ pc' = "match"
                /\ pos' = pos
           ELSE /\ dupe_entry' = NoEntry
                /\ pc' = "for"
                /\ pos' = pos + 1
    /\ UNCHANGED <<singles, text, single_entry, set_vars>>

\* match singles.rustc_entry(ch)
MatchSingles ==
    /\ pc = "match"
    /\ LET r == HashSet_rustc_entry(singles, text[pos]) IN
        /\ singles' = r.table
        /\ single_entry' = Handle(r)
        /\ pc' = IF r.tag = "Vacant" THEN "first" ELSE "again"
    /\ UNCHANGED <<dupes, text, pos, dupe_entry, set_vars>>

\* Vacant(single_entry) => single_entry.insert(); the body ends, dupe_entry is dropped
SingleInsert ==
    /\ pc = "first"
    /\ singles' = RustcVacantEntry_insert(singles, single_entry).table
    /\ single_entry' = NoEntry
    /\ dupe_entry' = NoEntry
    /\ pos' = pos + 1
    /\ pc' = "for"
    /\ UNCHANGED <<dupes, text, set_vars>>

\* Occupied(single_entry) => single_entry.remove();
SingleRemove ==
    /\ pc = "again"
    /\ singles' = RustcOccupiedEntry_remove(singles, single_entry).table
    /\ single_entry' = NoEntry
    /\ pc' = "move"
    /\ UNCHANGED <<dupes, text, pos, dupe_entry, set_vars>>

\* dupe_entry.insert(); the body ends
DupeInsert ==
    /\ pc = "move"
    /\ dupes' = RustcVacantEntry_insert(dupes, dupe_entry).table
    /\ dupe_entry' = NoEntry
    /\ pos' = pos + 1
    /\ pc' = "for"
    /\ UNCHANGED <<singles, text, single_entry, set_vars>>

\* the text is exhausted
ForEnd ==
    /\ pc = "for"
    /\ pos > Len(text)
    /\ pc' = "done"
    /\ UNCHANGED <<singles, dupes, text, pos, dupe_entry, single_entry, set_vars>>

ExampleNext ==
    \/ ForDupes
    \/ MatchSingles
    \/ SingleInsert
    \/ SingleRemove
    \/ DupeInsert
    \/ ForEnd

ExampleSpec == ExampleInit /\ [][ExampleNext]_vars

----------------------------------------------------------------------------
(* Properties *)

\* the slots of t that hold a value equivalent to v
slots_of(t, v) == {s \in Slots : t[s] # NoValue /\ Equivalent(t[s], v)}

\* C1: rustc_entry(v) returns Occupied exactly when the set already held a value
\* equivalent to v, and otherwise Vacant holding v itself.
C1_EntryVariant ==
    last.op = "rustc_entry" =>
        /\ entry.tag \in {"Occupied", "Vacant"}
        /\ entry.tag = "Occupied" <=> contains(life.pre, life.q)
        /\ entry.tag = "Vacant" => entry.inner.key = life.q /\ RustcVacantEntry_get(entry).ret = life.q

C1_Witness ==
    /\ last.op = "rustc_entry"
    /\ entry.tag = "Occupied"
    /\ stored(life.pre, life.q) # life.q

\* C2: for v not in the set, the entry for v is Vacant and insert() on it leaves
\* contains(v) true, v itself stored, and the length one greater than before.
C2_VacantInsert ==
    last.op = "vacant_insert" =>
        /\ ~contains(life.pre, life.q)
        /\ contains(table, life.q)
        /\ stored(table, life.q) = life.q
        /\ len(table) = len(life.pre) + 1

C2_Witness ==
    /\ last.op = "vacant_insert"
    /\ len(life.pre) > 0

\* C3: Entry.insert() on an Occupied entry returns that same entry and changes neither
\* the length nor the stored value; on a Vacant entry it stores the held value; either
\* way the set then contains a value equivalent to the queried one and has grown by at
\* most one (by zero when the entry was Occupied).
C3_EntryInsert ==
    [][last'.op = "insert" =>
        /\ entry'.tag = "Occupied"
        /\ contains(table', entry.inner.key)
        /\ len(table') - len(table) \in {0, 1}
        /\ entry.tag = "Occupied" =>
              /\ entry' = entry
              /\ table' = table
              /\ len(table') = len(table)
              /\ stored(table', entry.inner.key) = stored(table, entry.inner.key)
        /\ entry.tag = "Vacant" =>
              /\ stored(table', entry.inner.key) = entry.inner.key
              /\ len(table') = len(table) + 1]_vars

C3_Witness ==
    /\ last.op = "insert"
    /\ last.was = "Occupied"
    /\ life.origin = "Found"
    /\ stored(table, life.q) # life.q

\* C4: or_insert() is idempotent: rustc_entry(v).or_insert() performed a second time
\* right after the first leaves the set exactly as the first left it, and the set
\* contains v.
C4_OrInsertIdempotent ==
    (last.op = "or_insert" /\ life.origin # "Stored" /\ prev = life.q) =>
        /\ table = life.pre
        /\ members(table) = members(life.pre)
        /\ len(table) = len(life.pre)
        /\ contains(table, life.q)

C4_Witness ==
    /\ last.op = "or_insert"
    /\ life.origin # "Stored"
    /\ prev = life.q
    /\ len(table) < NumClasses

\* C5: when the set already holds v1 equivalent to the queried v2, or_insert() is a
\* no-op: same length, no duplicate, and the stored value is still v1.
C5_OrInsertOccupied ==
    (last.op = "or_insert" /\ last.was = "Occupied" /\ life.origin = "Found") =>
        /\ len(table) = len(life.pre)
        /\ Cardinality(slots_of(table, life.q)) = 1
        /\ stored(table, life.q) = stored(life.pre, life.q)
        /\ table = life.pre

C5_Witness ==
    /\ last.op = "or_insert"
    /\ last.was = "Occupied"
    /\ life.origin = "Found"
    /\ stored(life.pre, life.q) # life.q

\* the calls that store a value
Storing == {"insert", "or_insert", "vacant_insert", "insert_entry"}

\* C6: remove() returns the value that was stored (not the queried one), shrinks the set
\* by exactly one, and from then on every lookup of an equivalent value reports absence
\* (the entry is Vacant, contains is false) until an equivalent value is inserted again.
C6_Remove ==
    /\ [][last'.op = "remove" =>
            /\ last'.ret = stored(table, entry.inner.key)
            /\ last'.ret # NoValue
            /\ len(table') = len(table) - 1
            /\ \A w \in Values : Equivalent(w, entry.inner.key) =>
                  /\ ~contains(table', w)
                  /\ HashSet_rustc_entry(table', w).tag = "Vacant"]_vars
    /\ [][\A w \in Values : (~contains(table, w) /\ contains(table', w)) =>
            /\ last'.op \in Storing
            /\ entry.tag = "Vacant"
            /\ Equivalent(entry.inner.key, w)]_vars
    /\ [][(last'.op = "rustc_entry" /\ ~contains(table, entry'.inner.key)) =>
            entry'.tag = "Vacant"]_vars

C6_Witness ==
    /\ last.op = "remove"
    /\ life.origin = "Found"
    /\ last.ret # life.q
    /\ Equivalent(last.ret, life.q)
    /\ len(table) > 0

\* C7: with v1 stored and an equivalent, differently represented v2 queried, replace()
\* returns v1, leaves v2 stored in its place (a fresh entry for an equivalent value gets
\* v2), and changes neither the length nor the membership of any equivalence class.
C7_Replace ==
    (last.op = "replace" /\ life.origin = "Found") =>
        /\ last.ret = stored(life.pre, life.q)
        /\ Equivalent(last.ret, life.q)
        /\ stored(table, life.q) = life.q
        /\ \A w \in Values : Equivalent(w, life.q) =>
              LET e == HashSet_rustc_entry(table, w) IN
              e.tag = "Occupied" /\ RustcEntry_get(e.table, Handle(e)).ret = life.q
        /\ len(table) = len(life.pre)
        /\ \A w \in Values : contains(table, w) <=> contains(life.pre, w)
        /\ \A s \in Slots : table[s] # life.pre[s] => life.pre[s] = last.ret /\ table[s] = life.q

C7_Witness ==
    /\ last.op = "replace"
    /\ life.origin = "Found"
    /\ last.ret # life.q
    /\ len(table) > 1

C9_RoundTrip ==
    (last.op = "remove" /\ life.origin = "Stored") =>
        /\ Equivalent(last.ret, life.q)
        /\ ~contains(table, life.q)
        /\ members(table) = members(life.pre)
        /\ len(table) = len(life.pre)

C9_Witness ==
    /\ last.op = "remove"
    /\ life.origin = "Stored"
    /\ len(table) > 0

\* C10: rustc_entry(v) by itself and into_value() have no effect on the set: members,
\* stored representations and length stay as they were, also when the entry is just
\* discarded; into_value() returns exactly the queried v.
C10_NoEffect ==
    /\ [][last'.op \in {"rustc_entry", "into_value", "discard"} =>
            /\ table' = table
            /\ members(table') = members(table)
            /\ len(table') = len(table)]_vars
    /\ [][last'.op = "into_value" => last'.ret = entry.inner.key /\ last'.ret = life.q]_vars
    /\ [][(last'.op \in {"into_value", "discard"} /\ life.origin # "Stored") =>
            table' = life.pre]_vars

C10_Witness ==
    /\ last.op = "into_value"
    /\ last.ret = life.q
    /\ len(table) > 0

\* the calls that only read through the handle
Reading == {"get", "occupied_get", "vacant_get"}

\* C11: get() never mutates the set; it returns the queried value for a Vacant entry
\* and the value physically stored in the set for an Occupied one, so with v1 stored
\* and an equivalent v2 queried, Entry.get() and OccupiedEntry.get() return v1.
C11_Get ==
    [][last'.op \in Reading =>
        /\ table' = table
        /\ entry' = entry
        /\ entry.tag = "Vacant" => last'.ret = entry.inner.key /\ last'.ret = life.q
        /\ entry.tag = "Occupied" =>
              /\ last'.ret = stored(table, entry.inner.key)
              /\ last'.ret = table[entry.inner.slot]
              /\ life.origin = "Found" => last'.ret = stored(life.pre, life.q)]_vars

C11_Witness ==
    /\ last.op \in {"get", "occupied_get"}
    /\ last.was = "Occupied"
    /\ life.origin = "Found"
    /\ last.ret # life.q
    /\ last.ret = stored(table, life.q)

\* C12: in the documented loop, singles and dupes are disjoint after every step; at
\* the head of the loop, and so at its end, singles holds exactly the characters seen
\* once and dupes exactly those seen twice or more.
C12_SinglesDupes ==
    /\ \A ch \in Chars : ~(contains(singles, ch) /\ contains(dupes, ch))
    /\ members(singles) \cap members(dupes) = {}
    /\ pc \in {"for", "done"} =>
          /\ members(singles) = {ch \in Chars : seen(ch, pos - 1) = 1}
          /\ members(dupes) = {ch \in Chars : seen(ch, pos - 1) >= 2}
    /\ pc = "done" =>
          /\ pos = Len(text) + 1
          /\ \A ch \in Chars : contains(singles, ch) <=> seen(ch, Len(text)) = 1
          /\ \A ch \in Chars : contains(dupes, ch) <=> seen(ch, Len(text)) >= 2
          /\ len(singles) = Cardinality({ch \in Chars : seen(ch, Len(text)) = 1})
          /\ len(dupes) = Cardinality({ch \in Chars : seen(ch, Len(text)) >= 2})

C12_Witness ==
    /\ pc = "done"
    /\ \E ch \in Chars : seen(ch, Len(text)) >= 3 /\ contains(dupes, ch)
    /\ \E ch \in Chars : seen(ch, Len(text)) = 1 /\ contains(singles, ch)

\* the calls that take the handle by value and hand none back
Consuming == {"or_insert", "remove", "replace", "into_value", "vacant_insert", "discard"}

\* some call on a live handle is possible
HandleUsable ==
    \/ ENABLED Insert
    \/ ENABLED OrInsert
    \/ ENABLED Get
    \/ ENABLED OccupiedGet
    \/ ENABLED Remove
    \/ ENABLED Replace
    \/ ENABLED VacantGet
    \/ ENABLED IntoValue
    \/ ENABLED VacantInsert
    \/ ENABLED InsertEntry
    \/ ENABLED Discard

\* C13: a handle is Occupied or Vacant, never both; a Vacant handle becomes Occupied at
\* most once in its lifetime and only through insert() or insert_entry(), which consume
\* it; an Occupied handle never becomes Vacant; a handle ends by exactly one consuming
\* call, and once it is consumed no call on it is possible.
C13_HandleStateMachine ==
    /\ [](entry.tag \in {"None", "Occupied", "Vacant"})
    /\ [](entry.tag = "None" => ~HandleUsable)
    /\ [](entry.tag = "Occupied" =>
            ~(ENABLED VacantGet \/ ENABLED IntoValue \/ ENABLED VacantInsert \/ ENABLED InsertEntry))
    /\ [](entry.tag = "Vacant" => ~(ENABLED OccupiedGet \/ ENABLED Remove \/ ENABLED Replace))
    /\ [][(entry.tag = "Vacant" /\ entry'.tag = "Occupied") =>
            /\ last'.op \in {"insert", "insert_entry"}
            /\ life.origin = "Reserved" /\ life'.origin = "Stored"
            /\ entry'.inner = entry.inner]_vars
    /\ [][(last'.op \in {"insert", "insert_entry"}) => entry'.tag = "Occupied"]_vars
    /\ [][entry.tag = "Occupied" => entry'.tag # "Vacant"]_vars
    /\ [][(life.origin = "Stored" /\ last'.op # "rustc_entry") =>
            /\ life'.origin = "Stored"
            /\ entry'.tag # "Vacant"]_vars
    /\ [][last'.op \in Consuming => entry.tag # "None" /\ entry' = NoEntry]_vars
    /\ [][(entry.tag # "None" /\ entry'.tag = "None") => last'.op \in Consuming]_vars
    /\ [][last'.op \in Reading => entry' = entry /\ entry.tag # "None"]_vars

C13_Witness ==
    /\ life.origin = "Stored"
    /\ last.op = "remove"
    /\ entry.tag = "None"
    /\ ~HandleUsable

\* C14, as claimed: between rustc_entry and the end of the entry's lifetime, chained use
\* of the returned Occupied entry included, the set's contents change at most once.
C14_ChangedAtMostOnce == life.muts <= 1

\* C14, amended: the contents change at most once per handle, so at most twice in a
\* lifetime: once when a Vacant entry is inserted and once more through the Occupied
\* entry that insert()/insert_entry() returned; a lifetime without such an insertion
\* changes them at most once.
C14_ChangedOncePerHandle ==
    /\ life.muts <= 2
    /\ life.origin # "Stored" => life.muts <= 1
    /\ life.muts = 2 => entry.tag = "None" /\ last.op \in Consuming

C14_Witness ==
    /\ life.muts = 2
    /\ life.origin = "Stored"
    /\ last.op = "remove"
    /\ table = life.pre

C16_LiveHandle ==
    /\ entry.tag = "Vacant" =>
          /\ ~contains(table, entry.inner.key)
          /\ table[entry.inner.slot] = NoValue
    /\ entry.tag = "Occupied" =>
          /\ contains(table, entry.inner.key)
          /\ Cardinality(slots_of(table, entry.inner.key)) = 1
          /\ RustcOccupiedEntry_get(table, entry).ret = stored(table, entry.inner.key)
          /\ Equivalent(RustcOccupiedEntry_get(table, entry).ret, life.q)
    /\ entry.tag # "None" => ~ENABLED (\E value \in Values : Entry(value))

C16_Witness ==
    /\ entry.tag = "Occupied"
    /\ life.origin = "Stored"
    /\ len(table) > 1

\* C17: starting from the empty set, after any sequence of entry calls the set never
\* holds two equivalent values, and its length is the number of equivalence classes
\* it contains.
C17_NoDuplicates ==
    /\ \A s1, s2 \in Slots :
          (s1 # s2 /\ table[s1] # NoValue /\ table[s2] # NoValue) =>
              ~Equivalent(table[s1], table[s2])
    /\ len(table) = Cardinality({cl \in Classes : \E r \in Reps : contains(table, [c |-> cl, r |-> r])})
    /\ len(table) = Cardinality(members(table))

C17_Witness ==
    /\ len(table) = NumClasses
    /\ last.op = "insert"
    /\ last.was = "Occupied"
    /\ stored(table, life.q) # life.q

\* C18: every call on an entry for v, and taking the entry itself, leaves the
\* membership and the stored representation of every value not equivalent to v as
\* they were.
C18_FrameOthers ==
    [][LET v == IF entry.tag = "None" THEN life'.q ELSE entry.inner.key IN
       \A w \in Values : ~Equivalent(w, v) =>
          /\ contains(table', w) <=> contains(table, w)
          /\ stored(table', w) = stored(table, w)]_vars

C18_Witness ==
    /\ last.op = "remove"
    /\ len(table) > 0
    /\ \E w \in Values : ~Equivalent(w, life.q) /\ stored(table, w) = w /\ stored(life.pre, w) = w

====
